---- MODULE Spec2Model ----
(***************************************************************************)
(* Model of the submit / poll / classify / retry loop of                   *)
(* src/runner/sentieon_runner.py (function main, lines 133-136, 282-395).  *)
(*                                                                         *)
(* The script is Python 2 code (print_function import, subscripted         *)
(* filter() result): filter() returns a list, an unbound local raises      *)
(* UnboundLocalError, a missing dict key raises KeyError, and an uncaught  *)
(* exception ends the process with exit status 1.                          *)
(***************************************************************************)
EXTENDS Integers, Sequences, FiniteSets, TLC

\* ---------------------------------------------------------------- bounds
MaxTries == 3
MaxPolls == 2
MaxEvents == 2

\* ------------------------------------------------------------- constants
WorkerAssignedEvent == "type.googleapis.com/google.genomics.v2alpha1.WorkerAssignedEvent"
ContainerStartedEvent == "type.googleapis.com/google.genomics.v2alpha1.ContainerStartedEvent"
WorkerReleasedEvent == "type.googleapis.com/google.genomics.v2alpha1.WorkerReleasedEvent"
PreemptedType == "compute.instances.preempted"

\* job_vars["PROJECT_ID"], bound to the local `project`
project == "proj"

\* Python's None for the local `operation`
None == [none |-> TRUE]

\* target_url_base.format(project=..., zone=..., instance=...)
target_url_base(proj, zone, instance) == <<"projects", proj, "zones", zone, "instances", instance>>

\* The events an operation's metadata may carry.  Only events that name a
\* worker (assignment, release) have instance and zone in their details.
EventKinds ==
    { [details |-> [type |-> WorkerAssignedEvent, instance |-> "vm1", zone |-> "z1"]],
      [details |-> [type |-> WorkerAssignedEvent, instance |-> "vm2", zone |-> "z2"]],
      [details |-> [type |-> WorkerReleasedEvent, instance |-> "vm1", zone |-> "z1"]],
      [details |-> [type |-> ContainerStartedEvent]] }

SeqsUpTo(S, n) == UNION { [1..k -> S] : k \in 0..n }

EventLists == SeqsUpTo(EventKinds, MaxEvents)

\* Every URL the model can build
AllUrls == { target_url_base(project, "z1", "vm1"), target_url_base(project, "z2", "vm2") }

\* service.pipelines().run(body=body).execute(): a fresh, running operation
RunningOp(name) == [name |-> name, done |-> FALSE, metadata |-> [events |-> <<>>]]

\* A terminal operation as returned by projects().operations().get()
DoneOp(name, err, evs) ==
    IF err THEN [name |-> name, done |-> TRUE, error |-> "ErrorInfo", metadata |-> [events |-> evs]]
           ELSE [name |-> name, done |-> TRUE, metadata |-> [events |-> evs]]

\* compute_service.zoneOperations().list(project, zone, filter).execute():
\* the service returns the preemption operations whose targetLink is url.
\* An empty result is a response without "items" or with an empty list.
ZoneOperationsList(url, zoneOps, style) ==
    IF url \in zoneOps
    THEN [kind |-> "compute#operationList",
          items |-> << [operationType |-> PreemptedType, targetLink |-> url] >>]
    ELSE IF style = "absent"
         THEN [kind |-> "compute#operationList"]
         ELSE [kind |-> "compute#operationList", items |-> << >>]

\* any([x["details"]["@type"] == "...WorkerAssignedEvent" for x in events])
AnyWorkerAssigned(events) ==
    \E i \in 1..Len(events) : events[i].details.type = WorkerAssignedEvent

\* filter(lambda x: ... == "...WorkerAssignedEvent", events)
FilterWorkerAssigned(events) ==
    SelectSeq(events, LAMBDA x : x.details.type = WorkerAssignedEvent)

\* Lines 307-313: startup_event = filter(...)[0], the first worker-assignment
\* event of the list
LoopStartupEvent(events) == FilterWorkerAssigned(events)[1]

\* Lines 380-382: events[-1], the last event of the list whatever its type
FinalLastEvent(events) == events[Len(events)]

\* Variant of LoopPreempted: only tests that the response has an "items" key
LoopPreempted_ItemsKeyOnly(compute_ops) == "items" \in DOMAIN compute_ops

\* "items" in compute_ops and any([x["operationType"] == "compute.instances.preempted" ...])
LoopPreempted(compute_ops) ==
    /\ "items" \in DOMAIN compute_ops
    /\ \E i \in 1..Len(compute_ops.items) : compute_ops.items[i].operationType = PreemptedType

\* "items" in compute_ops
FinalPreempted(compute_ops) == "items" \in DOMAIN compute_ops

\* The result set of a zone-operations response is non-empty
NonEmpty(compute_ops) ==
    "items" \in DOMAIN compute_ops /\ Len(compute_ops.items) > 0

\* Lines 298-333 as a function of the failed operation's events and of the
\* zone operations: the instance and zone queried and the decision taken
LoopClassify(events, zoneOps, style) ==
    IF ~AnyWorkerAssigned(events)
    THEN [verdict |-> "FatalPreStart", instance |-> "none", zone |-> "none"]
    ELSE LET startup_event == LoopStartupEvent(events)
             instance == startup_event.details.instance
             zone == startup_event.details.zone
             compute_ops == ZoneOperationsList(target_url_base(project, zone, instance),
                                               zoneOps, style)
         IN [verdict |-> IF LoopPreempted(compute_ops) THEN "Preempted" ELSE "FatalUnrelated",
             instance |-> instance, zone |-> zone]

\* Lines 370-393 as a function of the same inputs
FinalClassify(events, zoneOps, style) ==
    IF ~AnyWorkerAssigned(events)
    THEN [verdict |-> "FatalPreStart", instance |-> "none", zone |-> "none"]
    ELSE IF "instance" \notin DOMAIN FinalLastEvent(events).details
    THEN [verdict |-> "KeyError", instance |-> "none", zone |-> "none"]
    ELSE LET instance == FinalLastEvent(events).details.instance
             zone == FinalLastEvent(events).details.zone
             compute_ops == ZoneOperationsList(target_url_base(project, zone, instance),
                                               zoneOps, style)
         IN [verdict |-> IF FinalPreempted(compute_ops) THEN "Preempted" ELSE "FatalUnrelated",
             instance |-> instance, zone |-> zone]

VARIABLES
    PREEMPTIBLE_TRIES,      \* job_vars["PREEMPTIBLE_TRIES"]
    NONPREEMPTIBLE_TRY,     \* job_vars["NONPREEMPTIBLE_TRY"]
    preemptible_tries,      \* local of main
    non_preemptible_tries,  \* local of main (meaningful when np_is_bound)
    np_is_bound,            \* whether non_preemptible_tries was ever assigned
    vm_dict,                \* the virtualMachine dict, mutated in place
    operation,              \* local of main: None or the last operation seen
    counter,                \* local of main
    pc,                     \* position in main
    exit_code,              \* process exit status, -1 while running
    exception,              \* the exception that ended the process, or "none"
    stdout,                 \* the messages printed, in order
    polls,                  \* getOperation calls made for the current operation
    submitted,              \* history: the request bodies passed to run()
    live,                   \* history: operations submitted and not yet seen done
    attempts,               \* history: what was observed of each finished attempt
    queries                 \* history: zone-operations queries, <<attempt, url>>

vars == << PREEMPTIBLE_TRIES, NONPREEMPTIBLE_TRY, preemptible_tries,
           non_preemptible_tries, np_is_bound, vm_dict, operation, counter, pc,
           exit_code, exception, stdout, polls, submitted, live, attempts, queries >>

cfg == << PREEMPTIBLE_TRIES, NONPREEMPTIBLE_TRY >>
budget == << preemptible_tries, non_preemptible_tries, np_is_bound >>
result == << exit_code, exception >>

\* job_vars["MACHINE_TYPE"]
MachineTypes == {"n1-standard-32", "n1-highcpu-96"}

\* Lines 222-231: the virtualMachine dict
VmDict(machineType, preemptible) ==
    IF machineType = "n1-highcpu-96"
    THEN [machineType |-> machineType, preemptible |-> preemptible,
          disks |-> << "local-disk" >>, cpuPlatform |-> "Intel Skylake"]
    ELSE [machineType |-> machineType, preemptible |-> preemptible,
          disks |-> << "local-disk" >>]

\* Variant of Body: the zones are left out of a non-preemptible request
Body_ZonesByMode(vm) ==
    [actions |-> << "run-pipeline", "cleanup" >>,
     resources |-> [projectId |-> project,
                    zones |-> IF vm.preemptible THEN << "z1", "z2" >> ELSE << >>,
                    virtualMachine |-> vm],
     environment |-> "env_dict"]

\* body = {"pipeline": {"actions": ..., "resources": ..., "environment": ...}}
Body(vm) ==
    [actions |-> << "run-pipeline", "cleanup" >>,
     resources |-> [projectId |-> project, zones |-> << "z1", "z2" >>, virtualMachine |-> vm],
     environment |-> "env_dict"]

\* What the service returned for a finished attempt: whether the terminal
\* operation carried an error, whether its events hold a worker assignment,
\* whether the zone operations were queried for it and whether that query's
\* result set was non-empty
Observed(op, queried, nonEmpty, path) ==
    [error |-> "error" \in DOMAIN op,
     worker |-> \E i \in 1..Len(op.metadata.events) :
                    op.metadata.events[i].details.type = WorkerAssignedEvent,
     queried |-> queried, nonEmpty |-> nonEmpty, path |-> path]

\* Lines 133-136, 217-229, 282-284
Init ==
    /\ PREEMPTIBLE_TRIES \in 0..MaxTries
    /\ NONPREEMPTIBLE_TRY \in BOOLEAN
    /\ preemptible_tries = PREEMPTIBLE_TRIES
    /\ np_is_bound = NONPREEMPTIBLE_TRY
    /\ non_preemptible_tries = IF NONPREEMPTIBLE_TRY THEN 1 ELSE 0
    /\ vm_dict \in { VmDict(mt, PREEMPTIBLE_TRIES > 0) : mt \in MachineTypes }
    /\ operation = None
    /\ counter = 0
    /\ pc = "while"
    /\ exit_code = -1
    /\ exception = "none"
    /\ stdout = << >>
    /\ polls = 0
    /\ submitted = << >>
    /\ live = {}
    /\ attempts = << >>
    /\ queries = << >>

\* sys.exit(code), an uncaught exception, or the return of main
Exit(code, exc) ==
    /\ pc' = "exit"
    /\ exit_code' = code
    /\ exception' = exc

\* Variant of WhileTest: the wait for the operation in hand (lines 287-296) is
\* skipped and the loop goes straight to the next submission
WhileTest_NoWait ==
    /\ pc = "while"
    /\ IF ~np_is_bound
       THEN Exit(1, "UnboundLocalError")
       ELSE /\ pc' = IF non_preemptible_tries > 0 \/ preemptible_tries > 0
                     THEN "submit"
                     ELSE "after_loop"
            /\ UNCHANGED result
    /\ UNCHANGED << cfg, budget, vm_dict, operation, counter, stdout, polls,
                    submitted, live, attempts, queries >>

\* Variant of WhileTest: the loop condition tests non_preemptible_tries >= 0
WhileTest_OffByOne ==
    /\ pc = "while"
    /\ IF ~np_is_bound
       THEN Exit(1, "UnboundLocalError")
       ELSE /\ pc' = IF non_preemptible_tries >= 0 \/ preemptible_tries > 0
                     THEN (IF operation # None THEN "poll" ELSE "submit")
                     ELSE "after_loop"
            /\ UNCHANGED result
    /\ UNCHANGED << cfg, budget, vm_dict, operation, counter, stdout, polls,
                    submitted, live, attempts, queries >>

\* Line 286: the loop condition; line 287: if operation.  With
\* NONPREEMPTIBLE_TRY false, line 135 never ran and reading
\* non_preemptible_tries (the first operand) raises UnboundLocalError.
WhileTest ==
    /\ pc = "while"
    /\ IF ~np_is_bound
       THEN Exit(1, "UnboundLocalError")
       ELSE /\ pc' = IF non_preemptible_tries > 0 \/ preemptible_tries > 0
                     THEN (IF operation # None THEN "poll" ELSE "submit")
                     ELSE "after_loop"
            /\ UNCHANGED result
    /\ UNCHANGED << cfg, budget, vm_dict, operation, counter, stdout, polls,
                    submitted, live, attempts, queries >>

\* Variant of PollRunning: the wait is given up after MaxPolls polls
PollRunning_Timeout ==
    /\ pc = "poll"
    /\ ~operation.done
    /\ polls < MaxPolls
    /\ polls' = polls + 1
    /\ operation' = RunningOp(operation.name)
    /\ pc' = IF polls' = MaxPolls THEN "after_loop" ELSE pc
    /\ UNCHANGED << cfg, budget, vm_dict, counter, result, stdout,
                    submitted, live, attempts, queries >>

\* Lines 288-292: getOperation returns an operation that is still running
PollRunning ==
    /\ pc = "poll"
    /\ ~operation.done
    /\ polls < MaxPolls
    /\ polls' = polls + 1
    /\ operation' = RunningOp(operation.name)
    /\ UNCHANGED << cfg, budget, vm_dict, counter, pc, result, stdout,
                    submitted, live, attempts, queries >>

\* Lines 288-292, 297: getOperation returns a terminal operation
PollDone ==
    /\ pc = "poll"
    /\ ~operation.done
    /\ \E err \in BOOLEAN, evs \in EventLists :
          operation' = DoneOp(operation.name, err, evs)
    /\ polls' = polls + 1
    /\ live' = live \ {operation.name}
    /\ pc' = "classify"
    /\ UNCHANGED << cfg, budget, vm_dict, counter, result, stdout,
                    submitted, attempts, queries >>

\* Variant of PollSSLError: the error is reported and the poll is repeated
PollSSLError_Retry ==
    /\ pc = "poll"
    /\ ~operation.done
    /\ polls < MaxPolls
    /\ polls' = polls + 1
    /\ stdout' = Append(stdout, "Network error while polling running operation.")
    /\ UNCHANGED << cfg, budget, vm_dict, operation, counter, pc, result,
                    submitted, live, attempts, queries >>

\* Lines 293-296: getOperation raises ssl.SSLError
PollSSLError ==
    /\ pc = "poll"
    /\ ~operation.done
    /\ polls' = polls + 1
    /\ stdout' = Append(stdout, "Network error while polling running operation.")
    /\ Exit(1, "SSLError")
    /\ UNCHANGED << cfg, budget, vm_dict, operation, counter,
                    submitted, live, attempts, queries >>

\* Variant of LoopBreakOnSuccess: the break at line 335 is missing and control
\* falls through to the submission
LoopBreakOnSuccess_FallThrough ==
    /\ pc = "classify"
    /\ "error" \notin DOMAIN operation
    /\ pc' = "submit"
    /\ UNCHANGED << cfg, budget, vm_dict, operation, counter, result, stdout, polls,
                    submitted, live, attempts, queries >>

\* Lines 298, 334-335: the terminal operation has no error; break
LoopBreakOnSuccess ==
    /\ pc = "classify"
    /\ "error" \notin DOMAIN operation
    /\ pc' = "after_loop"
    /\ UNCHANGED << cfg, budget, vm_dict, operation, counter, result, stdout, polls,
                    submitted, live, attempts, queries >>

\* Variant of LoopFailedBeforeRunning: the failure is handled like one that is
\* not due to preemption (leave the loop with operation None)
LoopFailedBeforeRunning_LeaveLoop ==
    /\ pc = "classify"
    /\ "error" \in DOMAIN operation
    /\ ~AnyWorkerAssigned(operation.metadata.events)
    /\ stdout' = Append(stdout, "Genomics operation failed before running:")
    /\ attempts' = Append(attempts, Observed(operation, FALSE, FALSE, "loop"))
    /\ operation' = None
    /\ pc' = "after_loop"
    /\ UNCHANGED << cfg, budget, vm_dict, counter, result, polls,
                    submitted, live, queries >>

\* Lines 298-305: error and no worker-assignment event; sys.exit(2)
LoopFailedBeforeRunning ==
    /\ pc = "classify"
    /\ "error" \in DOMAIN operation
    /\ ~AnyWorkerAssigned(operation.metadata.events)
    /\ stdout' = Append(stdout, "Genomics operation failed before running:")
    /\ attempts' = Append(attempts, Observed(operation, FALSE, FALSE, "loop"))
    /\ Exit(2, "none")
    /\ UNCHANGED << cfg, budget, vm_dict, operation, counter, polls,
                    submitted, live, queries >>

\* Lines 307-333: error and a worker was assigned; ask the zone operations
\* whether the instance was preempted, then retry or give up
LoopQueryPreemption ==
    /\ pc = "classify"
    /\ "error" \in DOMAIN operation
    /\ AnyWorkerAssigned(operation.metadata.events)
    /\ LET startup_event == LoopStartupEvent(operation.metadata.events)
           instance == startup_event.details.instance
           zone == startup_event.details.zone
           url == target_url_base(project, zone, instance)
       IN \E zoneOps \in SUBSET AllUrls, style \in {"absent", "empty"} :
            LET compute_ops == ZoneOperationsList(url, zoneOps, style) IN
            /\ queries' = Append(queries, << counter, url >>)
            /\ attempts' = Append(attempts,
                                  Observed(operation, TRUE, NonEmpty(compute_ops), "loop"))
            /\ IF LoopPreempted(compute_ops)
               THEN /\ stdout' = Append(stdout, "Run failed. Retrying...")
                    /\ pc' = "submit"
                    /\ UNCHANGED operation
               ELSE /\ stdout' = Append(stdout, "Run failed, but not due to preemption. Exit")
                    /\ operation' = None
                    /\ pc' = "after_loop"
    /\ UNCHANGED << cfg, budget, vm_dict, counter, result, polls, submitted, live >>

\* Variant of DrawPreemptible: the non-preemptible try is drawn first
DrawPreemptible_NonPreemptibleFirst == non_preemptible_tries = 0

\* Line 337: which counter the next attempt draws on
DrawPreemptible == preemptible_tries > 0

\* Variant of Submit: the preemptible branch sets the flag and leaves out the
\* decrement of line 339
Submit_NoConsume ==
    /\ pc = "submit"
    /\ IF DrawPreemptible
       THEN /\ vm_dict' = [vm_dict EXCEPT !.preemptible = TRUE]
            /\ UNCHANGED << preemptible_tries, non_preemptible_tries >>
       ELSE /\ vm_dict' = [vm_dict EXCEPT !.preemptible = FALSE]
            /\ non_preemptible_tries' = non_preemptible_tries - 1
            /\ UNCHANGED preemptible_tries
    /\ submitted' = Append(submitted, Body(vm_dict'))
    /\ operation' = RunningOp(counter + 1)
    /\ live' = live \cup {counter + 1}
    /\ counter' = counter + 1
    /\ polls' = 0
    /\ pc' = "while"
    /\ UNCHANGED << cfg, np_is_bound, result, stdout, attempts, queries >>

\* Lines 337-356: consume budget, set the flag, submit
Submit ==
    /\ pc = "submit"
    /\ IF DrawPreemptible
       THEN /\ vm_dict' = [vm_dict EXCEPT !.preemptible = TRUE]
            /\ preemptible_tries' = preemptible_tries - 1
            /\ UNCHANGED non_preemptible_tries
       ELSE /\ vm_dict' = [vm_dict EXCEPT !.preemptible = FALSE]
            /\ non_preemptible_tries' = non_preemptible_tries - 1
            /\ UNCHANGED preemptible_tries
    /\ submitted' = Append(submitted, Body(vm_dict'))
    /\ operation' = RunningOp(counter + 1)
    /\ live' = live \cup {counter + 1}
    /\ counter' = counter + 1
    /\ polls' = 0
    /\ pc' = "while"
    /\ UNCHANGED << cfg, np_is_bound, result, stdout, attempts, queries >>

\* Lines 358-359: after the loop; with operation None main returns
AfterLoop ==
    /\ pc = "after_loop"
    /\ IF operation = None
       THEN Exit(0, "none")
       ELSE /\ pc' = IF operation.done THEN "final_classify" ELSE "final_poll"
            /\ UNCHANGED result
    /\ UNCHANGED << cfg, budget, vm_dict, operation, counter, stdout, polls,
                    submitted, live, attempts, queries >>

\* Lines 359-364: getOperation returns an operation that is still running
FinalPollRunning ==
    /\ pc = "final_poll"
    /\ ~operation.done
    /\ polls < MaxPolls
    /\ polls' = polls + 1
    /\ operation' = RunningOp(operation.name)
    /\ UNCHANGED << cfg, budget, vm_dict, counter, pc, result, stdout,
                    submitted, live, attempts, queries >>

\* Lines 359-364: getOperation returns a terminal operation
FinalPollDone ==
    /\ pc = "final_poll"
    /\ ~operation.done
    /\ \E err \in BOOLEAN, evs \in EventLists :
          operation' = DoneOp(operation.name, err, evs)
    /\ polls' = polls + 1
    /\ live' = live \ {operation.name}
    /\ pc' = "final_classify"
    /\ UNCHANGED << cfg, budget, vm_dict, counter, result, stdout,
                    submitted, attempts, queries >>

\* Lines 365-369: getOperation raises ssl.SSLError
FinalPollSSLError ==
    /\ pc = "final_poll"
    /\ ~operation.done
    /\ polls' = polls + 1
    /\ stdout' = Append(stdout, "Network error while waiting for the final operation to finish")
    /\ Exit(1, "SSLError")
    /\ UNCHANGED << cfg, budget, vm_dict, operation, counter,
                    submitted, live, attempts, queries >>

\* Lines 370, 394-395: the last operation has no error; main returns
FinalSucceeded ==
    /\ pc = "final_classify"
    /\ "error" \notin DOMAIN operation
    /\ stdout' = Append(stdout, "Operation succeeded")
    /\ attempts' = Append(attempts, Observed(operation, FALSE, FALSE, "final"))
    /\ Exit(0, "none")
    /\ UNCHANGED << cfg, budget, vm_dict, operation, counter, polls,
                    submitted, live, queries >>

\* Lines 370-378: error and no worker-assignment event; sys.exit(2)
FinalFailedBeforeRunning ==
    /\ pc = "final_classify"
    /\ "error" \in DOMAIN operation
    /\ ~AnyWorkerAssigned(operation.metadata.events)
    /\ stdout' = Append(stdout, "Genomics operation failed before running:")
    /\ attempts' = Append(attempts, Observed(operation, FALSE, FALSE, "final"))
    /\ Exit(2, "none")
    /\ UNCHANGED << cfg, budget, vm_dict, operation, counter, polls,
                    submitted, live, queries >>

\* Lines 380-382: the last event of the list has no instance in its details;
\* events[-1]["details"]["instance"] raises KeyError
FinalKeyError ==
    /\ pc = "final_classify"
    /\ "error" \in DOMAIN operation
    /\ AnyWorkerAssigned(operation.metadata.events)
    /\ "instance" \notin DOMAIN FinalLastEvent(operation.metadata.events).details
    /\ attempts' = Append(attempts, Observed(operation, FALSE, FALSE, "final"))
    /\ Exit(1, "KeyError")
    /\ UNCHANGED << cfg, budget, vm_dict, operation, counter, stdout, polls,
                    submitted, live, queries >>

\* Lines 380-393: query the zone operations for the instance of the last
\* event, report, and return from main
FinalQueryPreemption ==
    /\ pc = "final_classify"
    /\ "error" \in DOMAIN operation
    /\ AnyWorkerAssigned(operation.metadata.events)
    /\ LET last == FinalLastEvent(operation.metadata.events)
       IN /\ "instance" \in DOMAIN last.details
          /\ LET instance == last.details.instance
                 zone == last.details.zone
                 url == target_url_base(project, zone, instance)
             IN \E zoneOps \in SUBSET AllUrls, style \in {"absent", "empty"} :
                  LET compute_ops == ZoneOperationsList(url, zoneOps, style) IN
                  /\ queries' = Append(queries, << counter, url >>)
                  /\ attempts' = Append(attempts,
                                    Observed(operation, TRUE, NonEmpty(compute_ops), "final"))
                  /\ stdout' = Append(stdout,
                                    IF FinalPreempted(compute_ops)
                                    THEN "Final run failed due to preemption"
                                    ELSE "Final run failed, not due to preemption")
    /\ Exit(0, "none")
    /\ UNCHANGED << cfg, budget, vm_dict, operation, counter, polls, submitted, live >>

Next ==
    \/ WhileTest
    \/ PollRunning
    \/ PollDone
    \/ PollSSLError
    \/ LoopBreakOnSuccess
    \/ LoopFailedBeforeRunning
    \/ LoopQueryPreemption
    \/ Submit
    \/ AfterLoop
    \/ FinalPollRunning
    \/ FinalPollDone
    \/ FinalPollSSLError
    \/ FinalSucceeded
    \/ FinalFailedBeforeRunning
    \/ FinalKeyError
    \/ FinalQueryPreemption

Spec == Init /\ [][Next]_vars

\* The orchestrator is one thread that always takes its next step, and the
\* execution service eventually reports every operation done.
FairSpec ==
    /\ Spec
    /\ WF_vars(WhileTest) /\ WF_vars(Submit) /\ WF_vars(AfterLoop)
    /\ WF_vars(LoopBreakOnSuccess \/ LoopFailedBeforeRunning \/ LoopQueryPreemption)
    /\ WF_vars(FinalSucceeded \/ FinalFailedBeforeRunning \/ FinalKeyError \/ FinalQueryPreemption)
    /\ WF_vars(PollDone) /\ WF_vars(FinalPollDone)

\* ------------------------------------------------------------------ claims

\* The budget (p, n) of a run, as configured
BudgetP == PREEMPTIBLE_TRIES
BudgetN == IF NONPREEMPTIBLE_TRY THEN 1 ELSE 0

\* The classification of a finished attempt, from what the service returned
Classification(a) ==
    IF ~a.error THEN "Succeeded"
    ELSE IF ~a.worker THEN "FatalPreStart"
    ELSE IF ~a.queried THEN "Unclassified"
    ELSE IF a.nonEmpty THEN "Preempted"
    ELSE "FatalUnrelated"

Terminated == pc = "exit"

\* C1: a run submits at most p + n operations, and exactly p + n only if each
\* of the attempts 1 .. p+n-1 ended failed and was classified Preempted.
C1_AtMostBudgetSubmissions ==
    /\ Len(submitted) <= BudgetP + BudgetN
    /\ Len(submitted) = BudgetP + BudgetN =>
          \A i \in 1..(BudgetP + BudgetN - 1) :
              /\ i <= Len(attempts)
              /\ Classification(attempts[i]) = "Preempted"

\* C1 witness: a run that used its whole budget of at least three attempts
C1_Witness ==
    /\ BudgetP + BudgetN >= 3
    /\ Len(submitted) = BudgetP + BudgetN
    /\ Len(attempts) >= 2

\* The operation in hand is terminal and has no error
SuccessObserved ==
    /\ operation # None
    /\ operation.done
    /\ "error" \notin DOMAIN operation

\* Attempt k is the first without error and attempts 1 .. k-1 were Preempted
FirstSuccessAt(k) ==
    /\ SuccessObserved
    /\ operation.name = k
    /\ \A i \in 1..(k - 1) : i <= Len(attempts) /\ Classification(attempts[i]) = "Preempted"

\* C2: when attempt k is the first to end without error (attempts 1 .. k-1
\* having been Preempted), the run has made exactly k submissions, makes no
\* further one whatever budget remains, and ends reporting success with exit
\* code 0.
C2_FirstSuccessStops ==
    /\ [](\A k \in 1..(BudgetP + BudgetN) :
             FirstSuccessAt(k) =>
                /\ Len(submitted) = k
                /\ Terminated => /\ exit_code = 0
                                 /\ stdout[Len(stdout)] = "Operation succeeded"
                                 /\ Classification(attempts[k]) = "Succeeded")
    /\ [][SuccessObserved => submitted' = submitted]_vars
    /\ \A k \in 1..(MaxTries + 1) :
          FirstSuccessAt(k) ~> (Terminated /\ exit_code = 0 /\ Len(submitted) = k)

\* C2 witness: the second attempt succeeded while budget remained and the run
\* ended with exit code 0
C2_Witness ==
    /\ FirstSuccessAt(2)
    /\ preemptible_tries + non_preemptible_tries > 0
    /\ Terminated
    /\ exit_code = 0

\* C3: whenever an attempt is classified FatalUnrelated (error, a worker was
\* assigned, the zone-operations query found no preemption), the run ends with
\* exit code 2, be it an intermediate or the final attempt.
C3_FatalUnrelatedExitsTwo ==
    \A i \in 1..Len(attempts) :
        (Terminated /\ Classification(attempts[i]) = "FatalUnrelated") => exit_code = 2

\* C4: whenever an attempt is classified FatalPreStart (error, no
\* worker-assignment event), no zone-operations query is made for it, no
\* further submission follows, and the run ends with exit code 2, whatever
\* budget remains and whether or not the attempt is the final one.
C4_FatalPreStartStops ==
    \A i \in 1..Len(attempts) :
        Classification(attempts[i]) = "FatalPreStart" =>
            /\ i = Len(attempts)
            /\ Len(submitted) = i
            /\ ~attempts[i].queried
            /\ \A q \in 1..Len(queries) : queries[q][1] # i
            /\ Terminated
            /\ exit_code = 2

\* C4 witness: a pre-start failure inside the loop, with budget left
C4_Witness ==
    /\ Len(attempts) >= 1
    /\ Classification(attempts[Len(attempts)]) = "FatalPreStart"
    /\ attempts[Len(attempts)].path = "loop"
    /\ preemptible_tries + non_preemptible_tries > 0
    /\ exit_code = 2

\* Every finished attempt of the run ended failed and classified Preempted,
\* and the run is over without a transport error
AllAttemptsPreempted ==
    /\ Terminated
    /\ exception # "SSLError"
    /\ \A i \in 1..Len(attempts) : Classification(attempts[i]) = "Preempted"

\* C5: with p = 3 and the non-preemptible try disabled (n = 0), and all
\* attempts Preempted, the run makes exactly 3 submissions and exits with code
\* 0; and with the non-preemptible try enabled and all p + 1 attempts
\* Preempted, it makes exactly p + 1 submissions and exits with code 0.
C5_ExhaustedWhilePreemptedExitsZero ==
    /\ (PREEMPTIBLE_TRIES = 3 /\ ~NONPREEMPTIBLE_TRY /\ AllAttemptsPreempted) =>
           (Len(submitted) = 3 /\ exit_code = 0)
    /\ (NONPREEMPTIBLE_TRY /\ AllAttemptsPreempted) =>
           (Len(submitted) = BudgetP + BudgetN /\ exit_code = 0)

\* A getOperation call has failed with a transport error
TransportErrorSeen ==
    \E i \in 1..Len(stdout) :
        stdout[i] \in { "Network error while polling running operation.",
                        "Network error while waiting for the final operation to finish" }

\* C6: a transport error of a getOperation call ends the run at once with exit
\* code 1: the attempt is not classified, and no further getOperation call,
\* zone-operations query or submission happens, even with budget left.
C6_TransportErrorIsFatal ==
    /\ [](TransportErrorSeen =>
             /\ Terminated
             /\ exit_code = 1
             /\ exception = "SSLError"
             /\ Len(attempts) = Len(submitted) - 1
             /\ \A q \in 1..Len(queries) : queries[q][1] # Len(submitted))
    /\ [][TransportErrorSeen => UNCHANGED << polls, submitted, attempts, queries >>]_vars

\* C6 witness: a transport error while polling an intermediate attempt
C6_Witness ==
    /\ TransportErrorSeen
    /\ Len(submitted) >= 2
    /\ preemptible_tries + non_preemptible_tries > 0
    /\ exit_code = 1

\* The preemptible flag of the i-th submitted request
FlagOf(i) == submitted[i].resources.virtualMachine.preemptible

\* C7: the i-th submission is preemptible if and only if i <= p, so no
\* preemptible submission follows a non-preemptible one, and the flag of each
\* request is the mode whose counter was decremented for that attempt.
C7_PreemptibleBudgetFirst ==
    /\ [](\A i \in 1..Len(submitted) : FlagOf(i) <=> (i <= BudgetP))
    /\ [](\A i, j \in 1..Len(submitted) : (i < j /\ ~FlagOf(i)) => ~FlagOf(j))
    /\ [][Len(submitted') > Len(submitted) =>
            \/ /\ submitted'[Len(submitted')].resources.virtualMachine.preemptible
               /\ preemptible_tries' = preemptible_tries - 1
               /\ non_preemptible_tries' = non_preemptible_tries
            \/ /\ ~submitted'[Len(submitted')].resources.virtualMachine.preemptible
               /\ non_preemptible_tries' = non_preemptible_tries - 1
               /\ preemptible_tries' = preemptible_tries]_vars

\* C7 witness: two preemptible submissions followed by the non-preemptible one
C7_Witness ==
    /\ Len(submitted) = 3
    /\ FlagOf(1) /\ FlagOf(2) /\ ~FlagOf(3)
    /\ BudgetP = 2

\* C8: at most one submitted operation is not yet observed terminal, and a
\* submission happens only when every earlier operation was observed done.
C8_AtMostOneLive ==
    /\ [](Cardinality(live) <= 1)
    /\ [](live # {} => operation # None /\ ~operation.done /\ live = {operation.name})
    /\ [][Len(submitted') > Len(submitted) => live = {}]_vars

\* C8 witness: a later attempt is live after an earlier one was observed done
C8_Witness ==
    /\ Len(submitted) >= 2
    /\ Cardinality(live) = 1
    /\ polls >= 1

\* C9: every submission after the first directly follows the previous attempt
\* being observed terminal with an error, with a worker assignment, and
\* classified Preempted by the zone-operations query; nothing is submitted
\* after an attempt that succeeded, was FatalPreStart, or was FatalUnrelated.
C9_ResubmitOnlyOnPreemption ==
    /\ [][(Len(submitted') > Len(submitted) /\ Len(submitted) >= 1) =>
            /\ operation # None
            /\ operation.done
            /\ operation.name = Len(submitted)
            /\ "error" \in DOMAIN operation
            /\ Len(attempts) = Len(submitted)
            /\ attempts[Len(attempts)].worker
            /\ attempts[Len(attempts)].queried
            /\ queries[Len(queries)][1] = Len(submitted)
            /\ Classification(attempts[Len(attempts)]) = "Preempted"]_vars
    /\ [](\A i \in 1..Len(attempts) :
             Classification(attempts[i]) \in {"Succeeded", "FatalPreStart", "FatalUnrelated"}
                => Len(submitted) = i)

\* C9 witness: a resubmission after a preempted attempt
C9_Witness ==
    /\ Len(submitted) >= 2
    /\ Len(attempts) >= 1
    /\ Classification(attempts[1]) = "Preempted"

Polling == pc \in {"poll", "final_poll"}

\* C10: given that every operation eventually reports done, every run
\* eventually terminates with an exit status; and a run that is polling stops
\* polling only when getOperation returns a terminal operation or fails with a
\* transport error (there is no timeout).
C10_TerminatesOnlyWhenDone ==
    /\ <>(Terminated /\ exit_code \in {0, 1, 2})
    /\ [][(Polling /\ pc' # pc) => (exception' = "SSLError" \/ operation'.done)]_vars
    /\ [][(Polling /\ polls' > polls) => (pc' = pc \/ exception' = "SSLError" \/ operation'.done)]_vars

\* C10 witness: a run that ended normally after an operation was polled more
\* than once
C10_Witness ==
    /\ Terminated
    /\ exception = "none"
    /\ polls >= 2
    /\ Len(submitted) >= 2

\* The most recent worker-assignment event of an event list: the last event
\* of that type in the list
MostRecentWorkerAssigned(events) ==
    events[CHOOSE i \in 1..Len(events) :
              /\ events[i].details.type = WorkerAssignedEvent
              /\ \A j \in (i + 1)..Len(events) : events[j].details.type # WorkerAssignedEvent]

\* The URL the preemption query should target for an event list
MostRecentUrl(events) ==
    target_url_base(project, MostRecentWorkerAssigned(events).details.zone,
                    MostRecentWorkerAssigned(events).details.instance)

\* C11: every zone-operations query, for an intermediate attempt or the final
\* one, targets the instance and zone of the most recent worker-assignment
\* event of the failed operation (the last such event of the list, not the
\* first one, and not merely the last event of any type).
C11_QueryTargetsMostRecentAssignment ==
    [][Len(queries') > Len(queries) =>
          queries'[Len(queries')][2] = MostRecentUrl(operation.metadata.events)]_vars

\* The verdict the code printed for the i-th finished attempt was preemption
SaidPreempted(i) ==
    stdout[i] \in {"Run failed. Retrying...", "Final run failed due to preemption"}

\* C12: for a failed attempt with a worker-assignment event, the code's verdict
\* is preemption if and only if the zone-operations query returned a non-empty
\* result set; a response with an empty or absent items list is not preemption.
C12_PreemptedIffNonEmptyResult ==
    \A i \in 1..Len(attempts) :
        (attempts[i].error /\ attempts[i].worker /\ attempts[i].queried) =>
            /\ i <= Len(stdout)
            /\ SaidPreempted(i) <=> attempts[i].nonEmpty

\* The budget that remains (an unbound non_preemptible_tries counts as none)
Remaining == preemptible_tries + non_preemptible_tries

\* C13: the budget is decremented exactly once per attempt, in the step that
\* submits it, and never reset: submissions made + budget remaining equals the
\* initial p + n in every state.
C13_BudgetConservation ==
    /\ [](Len(submitted) + Remaining = BudgetP + BudgetN)
    /\ [][Remaining' = Remaining \/ Remaining' = Remaining - 1]_vars
    /\ [][(Len(submitted') = Len(submitted) + 1) <=> (Remaining' = Remaining - 1)]_vars

\* C13 witness: a budget of 2 + 1 wholly consumed by three submissions
C13_Witness ==
    /\ BudgetP = 2 /\ BudgetN = 1
    /\ Len(submitted) = 3
    /\ Remaining = 0

\* C14: both counters never increase and are never negative, a counter is
\* decremented only when it is positive, and an attempt is started only while
\* budget remains.
C14_CountersMonotoneNonNegative ==
    /\ [](preemptible_tries >= 0 /\ non_preemptible_tries >= 0)
    /\ [][/\ preemptible_tries' <= preemptible_tries
          /\ non_preemptible_tries' <= non_preemptible_tries]_vars
    /\ [][/\ preemptible_tries' < preemptible_tries => preemptible_tries > 0
          /\ non_preemptible_tries' < non_preemptible_tries => non_preemptible_tries > 0]_vars
    /\ [][Len(submitted') > Len(submitted) => Remaining > 0]_vars

\* C14 witness: the run is over with both counters drawn down to zero
C14_Witness ==
    /\ Terminated
    /\ BudgetP >= 1 /\ BudgetN = 1
    /\ preemptible_tries = 0
    /\ non_preemptible_tries = 0

\* A request body with its preemptible flag blanked
WithoutFlag(body) == [body EXCEPT !.resources.virtualMachine.preemptible = FALSE]

\* C15: any two request bodies of one run have the same actions, environment,
\* projectId, zones, machine type and disks; they differ at most in
\* virtualMachine.preemptible.
C15_OnlyFlagChanges ==
    \A i, j \in 1..Len(submitted) :
        /\ WithoutFlag(submitted[i]) = WithoutFlag(submitted[j])
        /\ submitted[i].actions = submitted[j].actions
        /\ submitted[i].environment = submitted[j].environment
        /\ submitted[i].resources.projectId = submitted[j].resources.projectId
        /\ submitted[i].resources.zones = submitted[j].resources.zones
        /\ submitted[i].resources.virtualMachine.machineType
              = submitted[j].resources.virtualMachine.machineType
        /\ submitted[i].resources.virtualMachine.disks
              = submitted[j].resources.virtualMachine.disks

\* C15 witness: a preemptible and a non-preemptible request in one run
C15_Witness ==
    /\ Len(submitted) >= 2
    /\ FlagOf(1)
    /\ ~FlagOf(Len(submitted))

\* C16: a run makes at most one non-preemptible submission and none when the
\* non-preemptible try is disabled; with it disabled the run behaves as budget
\* (p, 0): it makes its preemptible submissions and then stops.
C16_DisabledRunsAsPZero ==
    /\ Cardinality({ i \in 1..Len(submitted) : ~FlagOf(i) }) <= 1
    /\ ~NONPREEMPTIBLE_TRY => \A i \in 1..Len(submitted) : FlagOf(i)
    /\ (~NONPREEMPTIBLE_TRY /\ BudgetP > 0 /\ Terminated) =>
          /\ Len(submitted) >= 1
          /\ exception # "UnboundLocalError"

\* The operation in hand is terminal and failed
FailureObserved ==
    /\ operation # None
    /\ operation.done
    /\ "error" \in DOMAIN operation

\* C17: for every failed terminal operation and every zone-operations
\* response, the classification inside the loop and the one after the loop
\* select the same instance and zone and give the same verdict.
C17_SameClassificationOnBothPaths ==
    FailureObserved =>
        \A zoneOps \in SUBSET AllUrls, style \in {"absent", "empty"} :
            LoopClassify(operation.metadata.events, zoneOps, style)
               = FinalClassify(operation.metadata.events, zoneOps, style)
====
